---- MODULE Spec2Model ----
(***************************************************************************)
(* Chat-context engine of nonebot-plugin-llm (chat.py): HistoryData, the   *)
(* token-budgeted deque of messages; ChatHistory, the two histories of one *)
(* conversation with their dirty flag and pickle file; ChatInstance and    *)
(* the chat_instances registry.                                            *)
(*                                                                         *)
(* Message objects live in a heap (messages) and deques hold references,   *)
(* because deque.copy() is shallow and update_timestamp mutates a message  *)
(* in place.  A message's enriched content is not modelled: the raw text   *)
(* handed to add_message and the token_count the constructor ends with are *)
(* inputs of the record operations.  The class of a message (UserMessage   *)
(* or ModelMessage, chosen by sender) decides only its role and content,   *)
(* so the sender argument is left out, as are the attributes that feed     *)
(* only the return value of a record call (HistoryData._last_message) or   *)
(* are never read (ChatHistory.last_chat_text).                            *)
(*                                                                         *)
(* The specifications share the variables: Spec records and clears the     *)
(* histories of one open conversation, SpecPersist adds save_pickle to a   *)
(* group conversation, SpecReg runs concurrent get_chat_instance calls     *)
(* over an empty registry and the files an earlier run left on disk,       *)
(* SpecThrottle asks in_throttle_time, SpecMerge lets two conversations    *)
(* load history from each other, SpecAutosave runs timed_storage over two  *)
(* conversations, and SpecRag is a conversation of nonebot-plugin-ragflow. *)
(***************************************************************************)
EXTENDS Integers, Sequences, FiniteSets, TLC

VARIABLES
    messages,        \* heap of BaseMessage objects: reference -> [text, timestamp, token_count]
    instances,       \* heap of ChatInstance objects, in construction order
    chat_instances,  \* the registry: chat_key -> reference into instances (NoRef: key absent)
    disk,            \* chat_key -> the file data/llm/<chat_key>/history.pickle
    now,             \* time()
    tasks,           \* running coroutines: get_chat_instance calls, timed_storage
    lookups,         \* chat_key -> number of platform display-name lookups started
    last             \* the operation performed by the latest step, and how it ended

vars == <<messages, instances, chat_instances, disk, now, tasks, lookups, last>>

---------------------------------------------------------------------------
(* Bounds of the model *)

MaxMsgs == 3        \* message objects alive at once
MaxTime == 1        \* the clock stops here
NumTasks == 2       \* concurrent message handlers
\* configuration values (config.py:159,161), scaled down
record_chat_context_token_limit == 10
record_other_context_token_limit == 6
auto_save_interval == 1

Texts == {"a", "b"}
TokenCounts == {4, 20}

None == "None"
NoRef == 0
Keys == {"group_1", "private_1", "unknown_1"}

---------------------------------------------------------------------------
(* ChatInstance properties *)

\* ChatInstance.total_token_limit
total_token_limit(inst) ==
    record_chat_context_token_limit + record_other_context_token_limit

\* ChatInstance.other_context_token_limit
other_context_token_limit(inst) ==
    IF inst.is_group THEN record_other_context_token_limit ELSE 0

\* ChatInstance.chat_context_token_limit
chat_context_token_limit(inst) ==
    IF inst.is_group THEN record_chat_context_token_limit ELSE total_token_limit(inst)

---------------------------------------------------------------------------
(* HistoryData *)

\* HistoryData.__init__ with neither copy_from nor _pickle_data
HistoryData(max_token_count) ==
    [deque |-> <<>>, total_tokens |-> 0, last_text |-> None,
     max_token_count |-> max_token_count]

\* check_limit that pops without subtracting the popped token_count: the total
\* never falls, so the loop ends only when the deque is empty
check_limit_keeps_total(h, msgs) ==
    IF h.deque # <<>> /\ h.total_tokens > h.max_token_count
    THEN [h EXCEPT !.deque = <<>>]
    ELSE h

\* check_limit with "if" for "while": at most one message is popped
check_limit_once(h, msgs) ==
    IF h.deque # <<>> /\ h.total_tokens > h.max_token_count
    THEN [h EXCEPT !.deque = Tail(@),
                   !.total_tokens = @ - msgs[Head(h.deque)].token_count]
    ELSE h

\* check_limit with pop() for popleft(): the newest message goes first
RECURSIVE check_limit_pop_right(_, _)
check_limit_pop_right(h, msgs) ==
    IF h.deque # <<>> /\ h.total_tokens > h.max_token_count
    THEN check_limit_pop_right(
             [h EXCEPT !.deque = SubSeq(@, 1, Len(@) - 1),
                       !.total_tokens = @ - msgs[h.deque[Len(h.deque)]].token_count], msgs)
    ELSE h

\* HistoryData.check_limit: pop the head while the deque is non-empty and over budget
RECURSIVE check_limit(_, _)
check_limit(h, msgs) ==
    IF h.deque # <<>> /\ h.total_tokens > h.max_token_count
    THEN check_limit([h EXCEPT !.deque = Tail(@),
                               !.total_tokens = @ - msgs[Head(h.deque)].token_count], msgs)
    ELSE h

\* HistoryData.add_message(message, text=text, check_limit=check)
add_message(h, msgs, id, text, check) ==
    LET h1 == [h EXCEPT !.total_tokens = @ + msgs[id].token_count,
                        !.deque = Append(@, id),
                        !.last_text = text]
    IN IF check THEN check_limit(h1, msgs) ELSE h1

\* HistoryData.is_last_text
is_last_text(h, text) == text = h.last_text

\* update_timestamp(0) for update_timestamp(-1): the head is refreshed
update_timestamp_head(h, msgs, t) ==
    [msgs EXCEPT ![h.deque[1]].timestamp = t]

\* HistoryData.update_timestamp(-1): deque[-1].timestamp = time(); the caller
\* guards the IndexError of an empty deque
update_timestamp(h, msgs, t) ==
    [msgs EXCEPT ![h.deque[Len(h.deque)]].timestamp = t]

---------------------------------------------------------------------------
(* Construction *)

\* ChatHistory.__init__ up to the load_pickle call
ChatHistory(inst, t) ==
    [other_history |-> HistoryData(other_context_token_limit(inst)),
     chat_history |-> HistoryData(chat_context_token_limit(inst)),
     changed |-> FALSE,
     next_auto_save_time |-> t + auto_save_interval * 60]

\* ChatInstance.__init__ with no pickle file to load
ChatInstance(chat_key, is_group, t) ==
    [chat_key |-> chat_key, is_group |-> is_group, last_msg_time |-> 0,
     history |-> ChatHistory([is_group |-> is_group], t)]

NoFile == [kind |-> "none"]
\* what a step records in last
\* what a step records in last: the operation, the instance and history it
\* worked on, its flag (auto_remove, force), the message it created if that
\* is still in a deque, and how it ended
Op(op, inst, hist, flag, msg, result) ==
    [op |-> op, inst |-> inst, hist |-> hist, flag |-> flag,
     msg |-> msg, result |-> result,
     tokens |-> 0,       \* token_count of the message created
     popped |-> 0,       \* messages check_limit removed
     key |-> None,       \* chat_key of the instance under construction
     upgraded |-> <<>>,  \* indices of the upgrader_list entries called, in order
     failed_at |-> -1,   \* the version logged by "历史记录转换失败(v...)"
     merged |-> HistoryData(0)]  \* merged_history of the flow just constructed
NoOp == Op("init", NoRef, None, FALSE, NoRef, "done")
Errors == {"IndexError", "OSError", "PicklingError", "UnboundLocalError",
           "FinishedException", "ActionFailed"}
raised(op) == op.result \in Errors

---------------------------------------------------------------------------
(* Heap bookkeeping.  What matters of a reference is which object it names, *)
(* not its number: after every step the reachable messages are renumbered   *)
(* in the order the deques first mention them, and the others are dropped.  *)

Range(s) == {s[i] : i \in DOMAIN s}

RECURSIVE Distinct(_)
Distinct(s) ==
    IF s = <<>> THEN <<>>
    ELSE LET d == Distinct(SubSeq(s, 1, Len(s) - 1))
         IN IF s[Len(s)] \in Range(d) THEN d ELSE Append(d, s[Len(s)])

RECURSIVE AllRefs(_, _)
AllRefs(insts, n) ==
    IF n = 0 THEN <<>>
    ELSE AllRefs(insts, n - 1) \o insts[n].history.chat_history.deque
                               \o insts[n].history.other_history.deque

\* the reachable message objects, in the order of their new numbers
Reachable(insts) == Distinct(AllRefs(insts, Len(insts)))

Renumber(ord, id) ==
    IF id \in Range(ord) THEN CHOOSE n \in DOMAIN ord : ord[n] = id ELSE NoRef

CompactMessages(msgs, insts) ==
    LET ord == Reachable(insts) IN [n \in DOMAIN ord |-> msgs[ord[n]]]

CompactHistory(h, ord) ==
    [h EXCEPT !.deque = [n \in DOMAIN h.deque |-> Renumber(ord, h.deque[n])]]

CompactInstances(insts) ==
    LET ord == Reachable(insts) IN
    [i \in DOMAIN insts |->
        [insts[i] EXCEPT !.history.chat_history = CompactHistory(@, ord),
                         !.history.other_history = CompactHistory(@, ord)]]

\* a new object takes the next free reference
NewId(msgs) == Len(msgs) + 1

\* BaseMessage.__init__: timestamp = time()
NewMessage(text, token_count, t) ==
    [text |-> text, timestamp |-> t, token_count |-> token_count]


---------------------------------------------------------------------------
(* Recording *)

\* The body add_other_history and add_chat_history share, on history hk of
\* instance i: a repeat of last_text refreshes the tail's timestamp, anything
\* else is appended as a new message.
Record(op, i, hk, text, auto_remove, token_count) ==
    LET h == instances[i].history[hk] IN
    IF is_last_text(h, text)
    THEN IF h.deque = <<>>
         THEN \* update_timestamp(-1) on an empty deque: IndexError
              /\ instances' = [instances EXCEPT ![i].history.changed = TRUE]
              /\ messages' = messages
              /\ last' = Op(op, i, hk, auto_remove, NoRef, "IndexError")
         ELSE /\ messages' = update_timestamp(h, messages, now)
              /\ instances' = [instances EXCEPT ![i].history.changed = TRUE]
              /\ last' = Op(op, i, hk, auto_remove, NoRef, "refreshed")
    ELSE /\ Len(messages) < MaxMsgs
         /\ LET id == NewId(messages)
                msgs1 == Append(messages, NewMessage(text, token_count, now))
                h1 == add_message(h, msgs1, id, text, auto_remove)
                insts1 == [instances EXCEPT ![i].history.changed = TRUE,
                                            ![i].history[hk] = h1]
            IN /\ instances' = CompactInstances(insts1)
               /\ messages' = CompactMessages(msgs1, insts1)
               /\ last' = [Op(op, i, hk, auto_remove, Renumber(Reachable(insts1), id), "appended")
                             EXCEPT !.tokens = token_count,
                                    !.popped = Len(h.deque) + 1 - Len(h1.deque)]

\* ChatHistory.add_other_history (ChatInstance.record_other_history)
add_other_history(i, text, auto_remove, token_count) ==
    /\ Record("add_other_history", i, "other_history", text, auto_remove, token_count)
    /\ UNCHANGED <<chat_instances, disk, now, tasks, lookups>>

\* ChatHistory.add_chat_history (ChatInstance.record_chat_history)
add_chat_history(i, text, auto_remove, token_count) ==
    /\ Record("add_chat_history", i, "chat_history", text, auto_remove, token_count)
    /\ UNCHANGED <<chat_instances, disk, now, tasks, lookups>>

\* ChatInstance.clear_history: self.history = ChatHistory(self, False)
clear_history(i) ==
    LET insts1 == [instances EXCEPT ![i].history = ChatHistory(instances[i], now)] IN
    /\ instances' = CompactInstances(insts1)
    /\ messages' = CompactMessages(messages, insts1)
    /\ last' = Op("clear_history", i, None, FALSE, NoRef, "done")
    /\ UNCHANGED <<chat_instances, disk, now, tasks, lookups>>

---------------------------------------------------------------------------
(* Loading history from another instance *)

\* sorted(..., key=lambda x: x.timestamp): stable insertion of one reference
RECURSIVE InsertByTimestamp(_, _, _)
InsertByTimestamp(sorted, id, msgs) ==
    IF sorted = <<>> THEN <<id>>
    ELSE IF msgs[sorted[Len(sorted)]].timestamp <= msgs[id].timestamp
         THEN Append(sorted, id)
         ELSE Append(InsertByTimestamp(SubSeq(sorted, 1, Len(sorted) - 1), id, msgs),
                     sorted[Len(sorted)])

RECURSIVE SortByTimestamp(_, _)
SortByTimestamp(s, msgs) ==
    IF s = <<>> THEN <<>>
    ELSE InsertByTimestamp(SortByTimestamp(SubSeq(s, 1, Len(s) - 1), msgs), s[Len(s)], msgs)

\* HistoryData.load(source) with one HistoryData: a shallow copy, then check_limit
load(h, source, msgs) ==
    check_limit([h EXCEPT !.deque = source.deque,
                          !.last_text = source.last_text,
                          !.total_tokens = source.total_tokens], msgs)

\* the union followed by check_limit
load_iterable_then_check_limit(h, sources, msgs) ==
    check_limit([h EXCEPT !.deque = SortByTimestamp(sources[1].deque \o sources[2].deque, msgs),
                          !.total_tokens = sources[1].total_tokens + sources[2].total_tokens,
                          !.last_text = None], msgs)

\* the union with the deques chained but not sorted
load_iterable_unsorted(h, sources, msgs) ==
    [h EXCEPT !.deque = sources[1].deque \o sources[2].deque,
              !.total_tokens = sources[1].total_tokens + sources[2].total_tokens,
              !.last_text = None]

\* HistoryData.load(source) with an iterable of HistoryData: sorted union, no check_limit
load_iterable(h, sources, msgs) ==
    [h EXCEPT !.deque = SortByTimestamp(sources[1].deque \o sources[2].deque, msgs),
              !.total_tokens = sources[1].total_tokens + sources[2].total_tokens,
              !.last_text = None]

\* ChatHistory.load_history_from_instance (ChatInstance.load_history_from_instance)
load_history_from_instance(i, j) ==
    LET src == instances[j].history
        own == instances[i].history
        insts1 ==
            IF instances[i].is_group
            THEN [instances EXCEPT
                    ![i].history.other_history =
                        load(own.other_history, src.other_history, messages),
                    ![i].history.chat_history =
                        load(own.chat_history, src.chat_history, messages)]
            ELSE [instances EXCEPT
                    ![i].history.chat_history =
                        load_iterable(own.chat_history,
                                      <<src.other_history, src.chat_history>>, messages)]
    IN /\ instances' = CompactInstances(insts1)
       /\ messages' = CompactMessages(messages, insts1)
       /\ last' = [Op("load_history_from_instance", i, None, FALSE, NoRef, "done")
                      EXCEPT !.key = instances[j].chat_key]
       /\ UNCHANGED <<chat_instances, disk, now, tasks, lookups>>

\* ChatCompletionFlow.__init__: merged_history = HistoryData(total_token_limit,
\* copy_from=(chat_history, other_history)); its deque is what
\* get_messages_list turns into the prompt, in order
ChatCompletionFlow(i) ==
    LET own == instances[i].history
        merged == load_iterable(HistoryData(total_token_limit(instances[i])),
                                <<own.chat_history, own.other_history>>, messages)
    IN /\ last' = [Op("ChatCompletionFlow", i, None, FALSE, NoRef, "done")
                      EXCEPT !.merged = merged]
       /\ UNCHANGED <<messages, instances, chat_instances, disk, now, tasks, lookups>>

---------------------------------------------------------------------------
(* One conversation in use: recording and clearing *)

\* time() advances
Tick ==
    /\ now < MaxTime
    /\ now' = now + 1
    /\ last' = Op("tick", NoRef, None, FALSE, NoRef, "done")
    /\ UNCHANGED <<messages, instances, chat_instances, disk, tasks, lookups>>

NoEvent == [type |-> None, chat_key |-> None]
NoTasks == [t \in 1..NumTasks |-> [pc |-> "idle", event |-> NoEvent, looked |-> FALSE, ret |-> NoRef]]

KeyOf(is_group) == IF is_group THEN "group_1" ELSE "private_1"

\* a conversation, group or private, has been opened; nothing is on disk
Init ==
    /\ messages = <<>>
    /\ \E is_group \in BOOLEAN :
          /\ instances = <<ChatInstance(KeyOf(is_group), is_group, 0)>>
          /\ chat_instances = [k \in Keys |-> IF k = KeyOf(is_group) THEN 1 ELSE NoRef]
    /\ disk = [k \in Keys |-> NoFile]
    /\ now = 0
    /\ tasks = NoTasks
    /\ lookups = [k \in Keys |-> 0]
    /\ last = NoOp

Next ==
    \/ Tick
    \/ \E i \in DOMAIN instances, text \in Texts, auto_remove \in BOOLEAN, token_count \in TokenCounts :
          \* message_handler records ambient messages for groups only
          /\ instances[i].is_group
          /\ add_other_history(i, text, auto_remove, token_count)
    \/ \E i \in DOMAIN instances, text \in Texts, auto_remove \in BOOLEAN, token_count \in TokenCounts :
          add_chat_history(i, text, auto_remove, token_count)
    \/ \E i \in DOMAIN instances : clear_history(i)

Spec == Init /\ [][Next]_vars

HistoryKeys == {"chat_history", "other_history"}
RecordOps == {"add_chat_history", "add_other_history"}

RECURSIVE SumTokens(_, _)
SumTokens(deque, msgs) ==
    IF deque = <<>> THEN 0
    ELSE msgs[Head(deque)].token_count + SumTokens(Tail(deque), msgs)

\* the messages of a deque, by value
Values(deque, msgs) == [n \in DOMAIN deque |-> msgs[deque[n]]]

\* the history the latest record operation worked on
Target == instances[last.inst].history[last.hist]

AppendedWithEviction == last.op \in RecordOps /\ last.result = "appended" /\ last.flag

(* C1: in every reachable state (after any sequence of add_message calls,  *)
(* with or without check_limit) total_tokens of every history is the exact *)
(* sum of token_count over the messages in its deque.                      *)
C1_TotalTokensExact ==
    \A i \in DOMAIN instances : \A hk \in HistoryKeys :
        LET h == instances[i].history[hk]
        IN h.total_tokens = SumTokens(h.deque, messages)

\* an append whose eviction removed a message and left two, and the sum is right
C1_Witness ==
    /\ AppendedWithEviction
    /\ last.popped >= 1
    /\ Len(Target.deque) = 2
    /\ Target.total_tokens = 2 * last.tokens

(* C2 (as claimed): eviction never removes the message just appended; a    *)
(* message whose token_count alone exceeds max_token_count, appended with  *)
(* eviction enabled, is afterwards the content of the history and          *)
(* total_tokens is its token_count.                                        *)
C2_NewestMessageKept ==
    AppendedWithEviction =>
        /\ last.msg # NoRef
        /\ Target.deque # <<>>
        /\ Target.deque[Len(Target.deque)] = last.msg
        /\ last.tokens > Target.max_token_count =>
              /\ Target.deque = <<last.msg>>
              /\ Target.total_tokens = last.tokens

(* C5: after an append with eviction enabled, total_tokens is within       *)
(* max_token_count, or the history holds at most one message, which is the *)
(* one just appended.                                                      *)
C5_WithinBudgetOrSingle ==
    AppendedWithEviction =>
        \/ Target.total_tokens <= Target.max_token_count
        \/ /\ Len(Target.deque) <= 1
           /\ Len(Target.deque) = 1 => Target.deque[1] = last.msg

\* an append that had to evict two older messages to get within budget
C5_Witness ==
    /\ AppendedWithEviction
    /\ last.popped = 2
    /\ Target.deque # <<>>
    /\ Target.total_tokens <= Target.max_token_count

\* the sum of the first n entries of a sequence of numbers
RECURSIVE SumFirst(_, _)
SumFirst(costs, n) == IF n = 0 THEN 0 ELSE SumFirst(costs, n - 1) + costs[n]

(* C6: eviction is FIFO and minimal.  After an append with eviction        *)
(* enabled the deque is the previous deque plus the new message, less a    *)
(* prefix: every head was popped only while total_tokens exceeded          *)
(* max_token_count, each pop subtracted the popped message's token_count,  *)
(* and popping stopped as soon as the total was within budget.             *)
C6_EvictionFifoMinimal ==
    [][ (last'.op \in RecordOps /\ last'.result = "appended" /\ last'.flag) =>
          LET pre == instances[last'.inst].history[last'.hist]
              post == instances'[last'.inst].history[last'.hist]
              new == [text |-> post.last_text, timestamp |-> now, token_count |-> last'.tokens]
              full == Append(Values(pre.deque, messages), new)
              costs == [n \in DOMAIN full |-> full[n].token_count]
              k == Len(full) - Len(post.deque)
              start == pre.total_tokens + last'.tokens
          IN /\ k >= 0
             /\ k = last'.popped
             /\ Values(post.deque, messages') = SubSeq(full, k + 1, Len(full))
             /\ post.total_tokens = start - SumFirst(costs, k)
             /\ \A j \in 0..(k - 1) : start - SumFirst(costs, j) > post.max_token_count
             /\ k < Len(full) => post.total_tokens <= post.max_token_count
      ]_vars

\* budget 10, costs 4, 4, 4: the third append evicts the first message and
\* leaves the second and third, 8 tokens
C6_Witness ==
    /\ AppendedWithEviction
    /\ last.hist = "chat_history"
    /\ Target.max_token_count = record_chat_context_token_limit
    /\ last.tokens = 4
    /\ last.popped = 1
    /\ [n \in DOMAIN Target.deque |-> messages[Target.deque[n]].token_count] = <<4, 4>>
    /\ Target.total_tokens = 8

(* C7: recording a text equal to the history's last_text leaves its deque, *)
(* its total_tokens and its last_text as they were; in the heap nothing    *)
(* changes but the timestamp of the tail message, which becomes now.       *)
C7_RepeatOnlyRefreshes ==
    [][ (/\ last'.op \in RecordOps
         /\ instances'[last'.inst].history[last'.hist].last_text
              = instances[last'.inst].history[last'.hist].last_text) =>
          LET pre == instances[last'.inst].history[last'.hist]
              post == instances'[last'.inst].history[last'.hist]
          IN /\ post = pre
             /\ DOMAIN messages' = DOMAIN messages
             /\ \A id \in DOMAIN messages :
                   IF pre.deque # <<>> /\ id = pre.deque[Len(pre.deque)]
                   THEN messages'[id] = [messages[id] EXCEPT !.timestamp = now]
                   ELSE messages'[id] = messages[id]
      ]_vars

\* a repeat recorded later than the tail it refreshes, in a history of two messages
C7_Witness ==
    /\ last.op \in RecordOps
    /\ last.result = "refreshed"
    /\ Len(Target.deque) = 2
    /\ messages[Target.deque[2]].timestamp = now
    /\ messages[Target.deque[1]].timestamp < now

---------------------------------------------------------------------------
(* Persistence: saving *)

VERSION == 2

\* get_data_dict with last_text left out of data_keys
get_data_dict_without_last_text(h, msgs) ==
    [deque |-> [n \in DOMAIN h.deque |-> msgs[h.deque[n]]],
     total_tokens |-> h.total_tokens,
     last_text |-> None]

\* HistoryData.get_data_dict, as pickle.dump writes it: the messages by value
get_data_dict(h, msgs) ==
    [deque |-> [n \in DOMAIN h.deque |-> msgs[h.deque[n]]],
     total_tokens |-> h.total_tokens,
     last_text |-> h.last_text]

\* ChatHistory.get_data_dict plus the VERSION tag save_pickle adds
PickleData(hist, msgs) ==
    [chat_history |-> get_data_dict(hist.chat_history, msgs),
     other_history |-> get_data_dict(hist.other_history, msgs),
     VERSION |-> VERSION]

PickleFile(data) == [kind |-> "pickle", data |-> data]
CorruptFile == [kind |-> "corrupt"]
SaveOutcomes == {"ok", "open_raises", "dump_raises"}

\* save_pickle with self.changed = False moved above the with block
save_pickle_clears_first(i, force, outcome) ==
    LET hist == instances[i].history
        key == instances[i].chat_key
        result == CASE ~(hist.changed \/ force) -> "skipped"
                    [] outcome = "ok" -> "written"
                    [] outcome = "open_raises" -> "OSError"
                    [] OTHER -> "PicklingError"
    IN /\ result = "skipped" => outcome = "ok"
       /\ instances' = [instances EXCEPT ![i].history.changed = (result = "skipped") /\ @]
       /\ disk' = CASE result = "written" ->
                         [disk EXCEPT ![key] = PickleFile(PickleData(hist, messages))]
                    [] result = "PicklingError" -> [disk EXCEPT ![key] = CorruptFile]
                    [] OTHER -> disk
       /\ last' = Op("save_pickle", i, None, force, NoRef, result)
       /\ UNCHANGED <<messages, chat_instances, now, tasks, lookups>>

\* ChatHistory.save_pickle(force).  The file system decides the outcome: open('wb')
\* may raise and leave the file alone, pickle.dump may raise after open truncated it.
save_pickle(i, force, outcome) ==
    LET hist == instances[i].history
        key == instances[i].chat_key
    IN /\ IF ~(hist.changed \/ force)
          THEN /\ outcome = "ok"
               /\ UNCHANGED <<instances, disk>>
               /\ last' = Op("save_pickle", i, None, force, NoRef, "skipped")
          ELSE CASE outcome = "ok" ->
                      /\ disk' = [disk EXCEPT ![key] = PickleFile(PickleData(hist, messages))]
                      /\ instances' = [instances EXCEPT ![i].history.changed = FALSE]
                      /\ last' = Op("save_pickle", i, None, force, NoRef, "written")
                 [] outcome = "open_raises" ->
                      /\ UNCHANGED <<instances, disk>>
                      /\ last' = Op("save_pickle", i, None, force, NoRef, "OSError")
                 [] outcome = "dump_raises" ->
                      /\ disk' = [disk EXCEPT ![key] = CorruptFile]
                      /\ UNCHANGED instances
                      /\ last' = Op("save_pickle", i, None, force, NoRef, "PicklingError")
       /\ UNCHANGED <<messages, chat_instances, now, tasks, lookups>>

\* save_pickle(force) as its callers see it: [history, disk, result]
SavePickle(inst, dsk, msgs, force, outcome) ==
    LET hist == inst.history IN
    IF ~(hist.changed \/ force)
    THEN [history |-> hist, disk |-> dsk, result |-> "skipped"]
    ELSE CASE outcome = "ok" ->
                [history |-> [hist EXCEPT !.changed = FALSE],
                 disk |-> [dsk EXCEPT ![inst.chat_key] = PickleFile(PickleData(hist, msgs))],
                 result |-> "written"]
           [] outcome = "open_raises" ->
                [history |-> hist, disk |-> dsk, result |-> "OSError"]
           [] OTHER ->
                [history |-> hist,
                 disk |-> [dsk EXCEPT ![inst.chat_key] = CorruptFile],
                 result |-> "PicklingError"]

\* get_chat_instances(): the registered instances, in registration order
get_chat_instances ==
    LET refs == {chat_instances[k] : k \in Keys} \ {NoRef}
        RECURSIVE Ordered(_)
        Ordered(n) == IF n = 0 THEN <<>>
                      ELSE IF n \in refs THEN Append(Ordered(n - 1), n)
                      ELSE Ordered(n - 1)
    IN Ordered(Len(instances))

\* the loop of on_shutdown over refs: save_pickle() of each instance in turn;
\* an exception of a write leaves the loop: [instances, disk, result]
RECURSIVE SaveAll(_, _, _, _)
SaveAll(insts, dsk, refs, outcomes) ==
    IF refs = <<>> THEN [instances |-> insts, disk |-> dsk, result |-> "done"]
    ELSE LET i == Head(refs)
             r == SavePickle(insts[i], dsk, messages, FALSE, outcomes[i])
         IN IF r.result \in Errors
            THEN [instances |-> insts, disk |-> r.disk, result |-> r.result]
            ELSE SaveAll([insts EXCEPT ![i].history = r.history], r.disk,
                         Tail(refs), outcomes)

\* the driver's on_shutdown hook
on_shutdown(outcomes) ==
    LET r == SaveAll(instances, disk, get_chat_instances, outcomes) IN
    /\ \A i \in DOMAIN instances :
          ~(instances[i].history.changed /\ chat_instances[instances[i].chat_key] = i)
             => outcomes[i] = "ok"
    /\ instances' = r.instances
    /\ disk' = r.disk
    /\ last' = Op("on_shutdown", NoRef, None, FALSE, NoRef, r.result)
    /\ UNCHANGED <<messages, chat_instances, now, tasks, lookups>>

\* the test of check_auto_save with the auto_save_history setting ignored
auto_save_due_any_setting(hist, auto_save_history, current_timestamp) ==
    hist.changed /\ current_timestamp > hist.next_auto_save_time

\* the test of check_auto_save: changed, auto_save_history, and the time has come
auto_save_due(hist, auto_save_history, current_timestamp) ==
    hist.changed /\ auto_save_history /\ current_timestamp > hist.next_auto_save_time

\* ChatHistory.check_auto_save(current_timestamp), called by timed_storage with
\* current_timestamp = time(); auto_save_history is the instance's setting
check_auto_save(i, auto_save_history, outcome) ==
    LET hist == instances[i].history
        r == SavePickle(instances[i], disk, messages, FALSE, outcome)
    IN /\ IF ~auto_save_due(hist, auto_save_history, now)
          THEN /\ outcome = "ok"
               /\ UNCHANGED <<instances, disk>>
               /\ last' = Op("check_auto_save", i, None, auto_save_history, NoRef, "skipped")
          ELSE /\ disk' = r.disk
               /\ instances' =
                     IF r.result \in Errors THEN instances
                     ELSE [instances EXCEPT ![i].history =
                             [r.history EXCEPT !.next_auto_save_time =
                                                   now + auto_save_interval * 60]]
               /\ last' = Op("check_auto_save", i, None, auto_save_history, NoRef, r.result)
       /\ UNCHANGED <<messages, chat_instances, now, tasks, lookups>>

\* asyncio.sleep and idle time: time() advances by a whole autosave interval
Sleep ==
    /\ now <= MaxTime
    /\ now' = now + auto_save_interval * 60
    /\ last' = Op("sleep", NoRef, None, FALSE, NoRef, "done")
    /\ UNCHANGED <<messages, instances, chat_instances, disk, tasks, lookups>>

---------------------------------------------------------------------------
(* A group conversation that is recorded, cleared and saved *)

InitPersist ==
    /\ messages = <<>>
    /\ instances = <<ChatInstance("group_1", TRUE, 0)>>
    /\ chat_instances = [k \in Keys |-> IF k = "group_1" THEN 1 ELSE NoRef]
    /\ disk = [k \in Keys |-> NoFile]
    /\ now = 0
    /\ tasks = NoTasks
    /\ lookups = [k \in Keys |-> 0]
    /\ last = NoOp

NextPersist ==
    \/ Tick
    \/ \E i \in DOMAIN instances, text \in Texts, token_count \in TokenCounts :
          \* auto_remove keeps its default, as in every caller
          add_chat_history(i, text, TRUE, token_count)
    \/ \E i \in DOMAIN instances : clear_history(i)
    \/ \E i \in DOMAIN instances, force \in BOOLEAN, outcome \in SaveOutcomes :
          save_pickle(i, force, outcome)
    \/ \E outcomes \in [DOMAIN instances -> SaveOutcomes] : on_shutdown(outcomes)
    \/ \E i \in DOMAIN instances, auto_save_history \in BOOLEAN, outcome \in SaveOutcomes :
          check_auto_save(i, auto_save_history, outcome)
    \/ Sleep

SpecPersist == InitPersist /\ [][NextPersist]_vars

\* C8: save_pickle writes nothing and changes no state unless changed or
\* force is true; when it writes, changed becomes false only if the write
\* completed without raising, and is left as it was if the write raised.  A
\* completed write leaves the snapshot of both histories, tagged VERSION.
C8_SaveOnlyWhenDue ==
    [][last'.op = "save_pickle" =>
         LET i == last'.inst
             pre == instances[i].history
             post == instances'[i].history
             key == instances[i].chat_key
         IN IF ~(pre.changed \/ last'.flag)
            THEN /\ last'.result = "skipped"
                 /\ UNCHANGED <<messages, instances, chat_instances, disk>>
            ELSE /\ last'.result # "skipped"
                 /\ post.changed = (raised(last') /\ pre.changed)
                 /\ instances' = [instances EXCEPT ![i].history.changed = post.changed]
                 /\ ~raised(last') =>
                        disk'[key] = PickleFile(PickleData(pre, messages))
                 /\ \A k \in Keys \ {key} : disk'[k] = disk[k]]_vars

\* a write raised while there were unsaved changes, and they are still unsaved
C8_Witness ==
    /\ last.op = "save_pickle"
    /\ raised(last)
    /\ ~last.flag
    /\ instances[last.inst].history.changed
    /\ instances[last.inst].history.chat_history.deque # <<>>

---------------------------------------------------------------------------
(* Persistence: loading and the migration chain *)

\* interface.count_token: the tokenizer, a fixed function of the text
count_token(text) == IF text = "a" THEN 4 ELSE 20

\* one (timestamp, message_dict, token_count) of a version-0 chat_history:
\* UserMessage(content, name) recounts, ModelMessage keeps token_count,
\* any other role is dropped
chat_entry_0_to_1(e) ==
    CASE e[2].role = "user" ->
            <<[text |-> e[2].content, timestamp |-> e[1],
               token_count |-> count_token(e[2].content)]>>
      [] e[2].role = "assistant" ->
            <<[text |-> e[2].content, timestamp |-> e[1], token_count |-> e[3]]>>
      [] OTHER -> <<>>

\* one entry of a version-0 other_history: always a UserMessage
other_entry_0_to_1(e) ==
    <<[text |-> e[2].content, timestamp |-> e[1],
       token_count |-> count_token(e[2].content)]>>

RECURSIVE Flatten(_)
Flatten(ss) == IF ss = <<>> THEN <<>> ELSE Head(ss) \o Flatten(Tail(ss))

\* message_dict['name'] of a dict without the key: KeyError
NeedsMissingName(e, always) ==
    (always \/ e[2].role = "user") /\ "name" \notin DOMAIN e[2]

\* history_data_0_to_1: [raised, data]
history_data_0_to_1(data) ==
    IF \/ "chat_history" \notin DOMAIN data
       \/ "other_history" \notin DOMAIN data
    THEN [raised |-> TRUE, data |-> data]
    ELSE IF \/ \E n \in DOMAIN data.chat_history : NeedsMissingName(data.chat_history[n], FALSE)
            \/ \E n \in DOMAIN data.other_history : NeedsMissingName(data.other_history[n], TRUE)
    THEN [raised |-> TRUE, data |-> data]
    ELSE [raised |-> FALSE,
          data |-> [data EXCEPT
             !.chat_history = Flatten([n \in DOMAIN @ |-> chat_entry_0_to_1(@[n])]),
             !.other_history = Flatten([n \in DOMAIN @ |-> other_entry_0_to_1(@[n])])]]

V1Keys == {"chat_history", "chat_history_token_count", "last_chat_text",
           "other_history", "other_history_token_count", "last_other_text"}

\* history_data_1_to_2: [raised, data]; a missing key is a KeyError
history_data_1_to_2(data) ==
    IF ~(V1Keys \subseteq DOMAIN data)
    THEN [raised |-> TRUE, data |-> data]
    ELSE [raised |-> FALSE,
          data |-> [chat_history |-> [deque |-> data.chat_history,
                                      total_tokens |-> data.chat_history_token_count,
                                      last_text |-> data.last_chat_text],
                    other_history |-> [deque |-> data.other_history,
                                       total_tokens |-> data.other_history_token_count,
                                       last_text |-> data.last_other_text]]]

\* upgrader_list[version](data)
upgrader_list(version, data) ==
    IF version = 0 THEN history_data_0_to_1(data) ELSE history_data_1_to_2(data)

\* pickle_data.get('VERSION', 0)
VersionOf(data) == IF "VERSION" \in DOMAIN data THEN data.VERSION ELSE 0

\* the loop with only the last upgrader called
Upgrade_last_only(data, version, upgraded) ==
    IF version < VERSION
    THEN LET r == upgrader_list(VERSION - 1, data)
         IN [raised |-> r.raised, data |-> IF r.raised THEN data ELSE r.data,
             upgraded |-> Append(upgraded, VERSION - 1), version |-> VERSION - 1]
    ELSE [raised |-> FALSE, data |-> data, upgraded |-> upgraded, version |-> version]

\* the while loop of load_pickle, from version on: [raised, data, upgraded, version]
RECURSIVE Upgrade(_, _, _)
Upgrade(data, version, upgraded) ==
    IF version < VERSION
    THEN LET r == upgrader_list(version, data)
         IN IF r.raised
            THEN [raised |-> TRUE, data |-> data,
                  upgraded |-> Append(upgraded, version), version |-> version]
            ELSE Upgrade(r.data, version + 1, Append(upgraded, version))
    ELSE [raised |-> FALSE, data |-> data, upgraded |-> upgraded, version |-> version]

\* HistoryData.load_pickel_data: setattr of deque, total_tokens and last_text;
\* the unpickled messages are new objects, at references first, first + 1, ...
load_pickel_data(h, value, first) ==
    [h EXCEPT !.deque = [n \in DOMAIN value.deque |-> first + n - 1],
              !.total_tokens = value.total_tokens,
              !.last_text = value.last_text]

\* the else branch of load_pickle: every history the record holds is applied
ApplyPickle(hist, data, msgs) ==
    LET chat == IF "chat_history" \in DOMAIN data
                THEN load_pickel_data(hist.chat_history, data.chat_history, Len(msgs) + 1)
                ELSE hist.chat_history
        msgs1 == IF "chat_history" \in DOMAIN data
                 THEN msgs \o data.chat_history.deque ELSE msgs
        other == IF "other_history" \in DOMAIN data
                 THEN load_pickel_data(hist.other_history, data.other_history, Len(msgs1) + 1)
                 ELSE hist.other_history
        msgs2 == IF "other_history" \in DOMAIN data
                 THEN msgs1 \o data.other_history.deque ELSE msgs1
    IN [history |-> [hist EXCEPT !.chat_history = chat, !.other_history = other],
        messages |-> msgs2]

\* ChatHistory.load_pickle: [history, messages, result, upgraded, failed_at].
\* When pickle.load raises, the warning is logged and pickle_data stays unbound:
\* the second try raises UnboundLocalError, and its handler, formatting the
\* unbound version, raises UnboundLocalError to the caller.
load_pickle(hist, file, msgs) ==
    CASE file.kind = "none" ->
            [history |-> hist, messages |-> msgs, result |-> "done",
             upgraded |-> <<>>, failed_at |-> -1]
      [] file.kind = "corrupt" ->
            [history |-> hist, messages |-> msgs, result |-> "UnboundLocalError",
             upgraded |-> <<>>, failed_at |-> -1]
      [] OTHER ->
            LET u == Upgrade(file.data, VersionOf(file.data), <<>>)
                a == ApplyPickle(hist, u.data, msgs)
            IN IF u.raised
               THEN [history |-> hist, messages |-> msgs, result |-> "done",
                     upgraded |-> u.upgraded, failed_at |-> u.version]
               ELSE [history |-> a.history, messages |-> a.messages, result |-> "done",
                     upgraded |-> u.upgraded, failed_at |-> -1]

---------------------------------------------------------------------------
(* The registry: get_chat_instance as a coroutine of a message handler *)

Events ==
    {[type |-> "GroupMessageEvent", chat_key |-> "group_1"],
     [type |-> "PrivateMessageEvent", chat_key |-> "private_1"],
     [type |-> "MessageEvent", chat_key |-> "unknown_1"]}

\* get_chat_type with every event that is not a group event taken as private
get_chat_type_private_by_default(event) ==
    [chat_key |-> event.chat_key,
     is_group |-> IF event.type = "GroupMessageEvent" THEN "True" ELSE "False"]

\* utils.get_chat_type: (chat_key, is_group), is_group None for an unknown source
get_chat_type(event) ==
    [chat_key |-> event.chat_key,
     is_group |-> CASE event.type = "GroupMessageEvent" -> "True"
                    [] event.type = "PrivateMessageEvent" -> "False"
                    [] OTHER -> None]

\* ChatInstance.__init__, reached by task t: the fields, ChatHistory(self) with
\* its load_pickle, then chat_instances[chat_key] = self.  A raise in
\* load_pickle leaves the registry as it was.
Construct(t, event, is_group) ==
    LET inst == ChatInstance(event.chat_key, is_group, now)
        l == load_pickle(inst.history, disk[event.chat_key], messages)
        ref == Len(instances) + 1
        op == [Op("ChatInstance", NoRef, None, FALSE, NoRef, l.result)
                  EXCEPT !.key = event.chat_key, !.upgraded = l.upgraded,
                         !.failed_at = l.failed_at]
    IN IF l.result \in Errors
       THEN /\ tasks' = [tasks EXCEPT ![t] = [pc |-> "failed", event |-> event,
                                            looked |-> TRUE, ret |-> NoRef]]
            /\ last' = op
            /\ UNCHANGED <<instances, chat_instances, messages>>
       ELSE /\ instances' = Append(instances, [inst EXCEPT !.history = l.history])
            /\ messages' = l.messages
            /\ chat_instances' = [chat_instances EXCEPT ![event.chat_key] = ref]
            /\ tasks' = [tasks EXCEPT ![t] = [pc |-> "done", event |-> event,
                                            looked |-> TRUE, ret |-> ref]]
            /\ last' = [op EXCEPT !.inst = ref]

\* get_chat_instance from its call to its first suspension, or to its end when
\* nothing suspends: a registered key returns at once, an unknown source ends in
\* matcher.finish, a group awaits bot.get_group_info, and a private chat takes
\* its name from the event without suspending.
Call(t, event) ==
    LET r == get_chat_type(event)
        found == chat_instances[r.chat_key]
    IN
    /\ tasks[t].pc = "idle"
    /\ IF found # NoRef
       THEN /\ tasks' = [tasks EXCEPT ![t] = [pc |-> "done", event |-> event,
                                            looked |-> FALSE, ret |-> found]]
            /\ last' = [Op("get_chat_instance", found, None, FALSE, NoRef, "done")
                           EXCEPT !.key = r.chat_key]
            /\ UNCHANGED <<instances, chat_instances, messages, lookups>>
       ELSE IF r.is_group = None
       THEN /\ tasks' = [tasks EXCEPT ![t] = [pc |-> "failed", event |-> event,
                                            looked |-> FALSE, ret |-> NoRef]]
            /\ last' = [Op("get_chat_instance", NoRef, None, FALSE, NoRef, "FinishedException")
                           EXCEPT !.key = r.chat_key]
            /\ UNCHANGED <<instances, chat_instances, messages, lookups>>
       ELSE IF event.type = "GroupMessageEvent"
       THEN /\ tasks' = [tasks EXCEPT ![t] = [pc |-> "lookup", event |-> event,
                                            looked |-> TRUE, ret |-> NoRef]]
            /\ lookups' = [lookups EXCEPT ![r.chat_key] = @ + 1]
            /\ last' = [Op("get_chat_instance", NoRef, None, FALSE, NoRef, "awaiting")
                           EXCEPT !.key = r.chat_key]
            /\ UNCHANGED <<instances, chat_instances, messages>>
       ELSE /\ lookups' = [lookups EXCEPT ![r.chat_key] = @ + 1]
            /\ Construct(t, event, FALSE)
    /\ UNCHANGED <<disk, now>>

\* bot.get_group_info answers: async_init goes on to cls(chat_key, name, is_group)
Resume(t) ==
    /\ tasks[t].pc = "lookup"
    /\ Construct(t, tasks[t].event, TRUE)
    /\ UNCHANGED <<disk, now, lookups>>

\* bot.get_group_info raises: nothing is constructed
LookupFails(t) ==
    /\ tasks[t].pc = "lookup"
    /\ tasks' = [tasks EXCEPT ![t].pc = "failed"]
    /\ last' = [Op("get_chat_instance", NoRef, None, FALSE, NoRef, "ActionFailed")
                   EXCEPT !.key = tasks[t].event.chat_key]
    /\ UNCHANGED <<messages, instances, chat_instances, disk, now, lookups>>

---------------------------------------------------------------------------
(* Handlers asking for a conversation whose file an earlier run left behind *)

\* (timestamp, message_dict, token_count) entries of a version-0 record
UserEntry == <<0, [role |-> "user", content |-> "a", name |-> "n"], 4>>
ModelEntry == <<0, [role |-> "assistant", content |-> "b"], 4>>
SystemEntry == <<0, [role |-> "system", content |-> "b"], 4>>
NamelessEntry == <<0, [role |-> "user", content |-> "a"], 4>>

\* what an earlier run may have left at pickle_path: nothing, a file pickle.load
\* rejects, or a record of version 0, 1 or 2
StoredFiles ==
    {NoFile, CorruptFile,
     \* version 0 with the counters and last texts of version 1
     PickleFile([chat_history |-> <<UserEntry, SystemEntry, ModelEntry>>,
                 other_history |-> <<UserEntry>>,
                 chat_history_token_count |-> 8, last_chat_text |-> "b",
                 other_history_token_count |-> 4, last_other_text |-> "a"]),
     \* version 0 whose counters are the sums over all its entries, the
     \* system message included
     PickleFile([chat_history |-> <<UserEntry, SystemEntry, ModelEntry>>,
                 other_history |-> <<UserEntry>>,
                 chat_history_token_count |-> 12, last_chat_text |-> "b",
                 other_history_token_count |-> 4, last_other_text |-> "a"]),
     \* version 0 without them: history_data_1_to_2 finds no counter
     PickleFile([chat_history |-> <<UserEntry, ModelEntry>>,
                 other_history |-> <<UserEntry>>]),
     \* version 0 with a user message that has no name
     PickleFile([chat_history |-> <<ModelEntry>>,
                 other_history |-> <<NamelessEntry>>,
                 chat_history_token_count |-> 4, last_chat_text |-> "b",
                 other_history_token_count |-> 4, last_other_text |-> "a"]),
     \* version 1
     PickleFile([VERSION |-> 1,
                 chat_history |-> <<NewMessage("a", 4, 0), NewMessage("b", 4, 0)>>,
                 other_history |-> <<>>,
                 chat_history_token_count |-> 8, last_chat_text |-> "b",
                 other_history_token_count |-> 0, last_other_text |-> None]),
     \* version 1 without its last texts
     PickleFile([VERSION |-> 1,
                 chat_history |-> <<NewMessage("a", 4, 0)>>,
                 other_history |-> <<>>,
                 chat_history_token_count |-> 4,
                 other_history_token_count |-> 0]),
     \* version 2, as save_pickle writes it
     PickleFile([VERSION |-> 2,
                 chat_history |-> [deque |-> <<NewMessage("a", 4, 0)>>,
                                   total_tokens |-> 4, last_text |-> "a"],
                 other_history |-> [deque |-> <<NewMessage("b", 4, 0)>>,
                                    total_tokens |-> 4, last_text |-> "b"]])}

\* no conversation is open; each handler invocation asks once
InitReg ==
    /\ messages = <<>>
    /\ instances = <<>>
    /\ chat_instances = [k \in Keys |-> NoRef]
    /\ \E group_file \in StoredFiles, private_file \in {NoFile, CorruptFile} :
          disk = [k \in Keys |-> CASE k = "group_1" -> group_file
                                   [] k = "private_1" -> private_file
                                   [] OTHER -> NoFile]
    /\ now = 0
    /\ tasks = NoTasks
    /\ lookups = [k \in Keys |-> 0]
    /\ last = NoOp

NextReg ==
    \/ \E t \in DOMAIN tasks, event \in Events : Call(t, event)
    \/ \E t \in DOMAIN tasks : Resume(t)
    \/ \E t \in DOMAIN tasks : LookupFails(t)

SpecReg == InitReg /\ [][NextReg]_vars

---------------------------------------------------------------------------
(* Claims about the registry and about loading *)

\* two handler invocations that both got an instance for the same chat_key
SameKeyDone(t1, t2) ==
    /\ t1 # t2
    /\ tasks[t1].pc = "done"
    /\ tasks[t2].pc = "done"
    /\ tasks[t1].event.chat_key = tasks[t2].event.chat_key

\* C3: get_chat_instance calls for the same chat key, interleaved at the awaited
\* name lookup or not, all return the same ChatInstance object, and no second
\* ChatInstance is constructed for that key.
C3_OneInstancePerKey ==
    /\ \A t1, t2 \in DOMAIN tasks : SameKeyDone(t1, t2) => tasks[t1].ret = tasks[t2].ret
    /\ \A i, j \in DOMAIN instances :
          instances[i].chat_key = instances[j].chat_key => i = j

\* C4: when get_chat_instance calls for the same unseen key have returned and
\* none of the calls for that key failed, exactly one platform display-name
\* lookup was performed for the key.
C4_OneLookupPerKey ==
    \A t1, t2 \in DOMAIN tasks :
        (/\ SameKeyDone(t1, t2)
         /\ \A t \in DOMAIN tasks :
               tasks[t].event.chat_key = tasks[t1].event.chat_key => tasks[t].pc # "failed")
        => lookups[tasks[t1].event.chat_key] = 1

\* the histories of instance i are as HistoryData() makes them
FreshHistories(i) ==
    \A hk \in HistoryKeys :
        /\ instances[i].history[hk].deque = <<>>
        /\ instances[i].history[hk].total_tokens = 0
        /\ instances[i].history[hk].last_text = None

\* C9: load_pickle never raises to the constructor that calls it: without a
\* file nothing happens, and with a file that cannot be deserialized the
\* instance is created with both histories fresh and empty.
C9_LoadNeverRaises ==
    last.op = "ChatInstance" =>
        /\ ~raised(last)
        /\ last.inst # NoRef
        /\ chat_instances[last.key] = last.inst
        /\ disk[last.key].kind \in {"none", "corrupt"} => FreshHistories(last.inst)

\* the versions v, v + 1, ..., w - 1
Versions(v, w) == [n \in 1..(w - v) |-> v + n - 1]

\* C10: loading a record of version v < VERSION calls upgrader_list[v], ...,
\* upgrader_list[VERSION - 1] once each, in ascending order; if a step raises,
\* the chain stops there, load_pickle returns without raising, nothing of the
\* file is applied and the instance starts with empty histories.
C10_MigrationChain ==
    (/\ last.op = "ChatInstance"
     /\ disk[last.key].kind = "pickle"
     /\ VersionOf(disk[last.key].data) < VERSION)
    => LET v == VersionOf(disk[last.key].data) IN
       /\ ~raised(last)
       /\ last.inst # NoRef
       /\ IF last.failed_at = -1
          THEN /\ last.upgraded = Versions(v, VERSION)
               /\ instances[last.inst].history.chat_history.deque # <<>>
          ELSE /\ last.failed_at \in v..(VERSION - 1)
               /\ last.upgraded = Versions(v, last.failed_at + 1)
               /\ FreshHistories(last.inst)

\* a version-0 record went through history_data_0_to_1, and history_data_1_to_2
\* then raised: the instance exists and is empty
C10_Witness ==
    /\ last.op = "ChatInstance"
    /\ disk[last.key].kind = "pickle"
    /\ VersionOf(disk[last.key].data) = 0
    /\ last.upgraded = <<0, 1>>
    /\ last.failed_at = 1
    /\ last.inst # NoRef
    /\ FreshHistories(last.inst)

---------------------------------------------------------------------------
(* Claims about flushing, the dirty flag and autosave *)

\* the file of chat_key k, loaded by a new ChatHistory, gives the histories
\* instance i holds in memory
DiskReflects(k, i) ==
    LET l == load_pickle(ChatHistory(instances[i], now), disk[k], <<>>) IN
    /\ l.result \notin Errors
    /\ PickleData(l.history, l.messages) = PickleData(instances[i].history, messages)

\* C11: after on_shutdown completes, every ChatInstance in the registry has
\* changed = false and its file on disk reflects its histories in memory.
\* Stated for the runs in which no write has left a truncated file behind.
C11_ShutdownFlushes ==
    (/\ last.op = "on_shutdown"
     /\ ~raised(last)
     /\ \A k \in Keys : disk[k] # CorruptFile) =>
        \A k \in Keys :
            chat_instances[k] # NoRef =>
                /\ ~instances[chat_instances[k]].history.changed
                /\ DiskReflects(k, chat_instances[k])

\* the operations that mutate a context, and those that persist it
MutatingOps == {"add_chat_history", "add_other_history", "clear_history",
                "load_history_from_instance"}
SavingOps == {"save_pickle", "on_shutdown", "check_auto_save"}

\* C12: every mutating operation on the context (recording into either
\* history, clearing the histories, loading history from another instance)
\* leaves changed true, and changed goes from true to false only in a save
\* that completed.
C12_ChangedTracksMutation ==
    [][/\ last'.op \in MutatingOps => instances'[last'.inst].history.changed
       /\ \A i \in DOMAIN instances :
             (instances[i].history.changed /\ ~instances'[i].history.changed)
                => (last'.op \in SavingOps /\ ~raised(last'))]_vars

\* C13: clear_history empties both histories and does not reset the dirty
\* flag: a context that was dirty before the clear is dirty after it.
C13_ClearKeepsDirty ==
    [][last'.op = "clear_history" =>
          /\ \A hk \in HistoryKeys :
                /\ instances'[last'.inst].history[hk].deque = <<>>
                /\ instances'[last'.inst].history[hk].total_tokens = 0
          /\ instances[last'.inst].history.changed
                => instances'[last'.inst].history.changed]_vars

---------------------------------------------------------------------------
(* Throttling: two conversations whose handlers ask in_throttle_time *)

reply_throttle_time == 3

\* in_throttle_time with the window restarted by every call
in_throttle_time_sliding(i) ==
    /\ instances' = [instances EXCEPT ![i].last_msg_time = now]
    /\ last' = Op("in_throttle_time", i, None, FALSE, NoRef,
                  IF now - instances[i].last_msg_time < reply_throttle_time
                  THEN "True" ELSE "False")
    /\ UNCHANGED <<messages, chat_instances, disk, now, tasks, lookups>>

\* ChatInstance.in_throttle_time
in_throttle_time(i) ==
    /\ IF now - instances[i].last_msg_time < reply_throttle_time
       THEN /\ UNCHANGED instances
            /\ last' = Op("in_throttle_time", i, None, FALSE, NoRef, "True")
       ELSE /\ instances' = [instances EXCEPT ![i].last_msg_time = now]
            /\ last' = Op("in_throttle_time", i, None, FALSE, NoRef, "False")
    /\ UNCHANGED <<messages, chat_instances, disk, now, tasks, lookups>>

\* time() advances, for as long as two throttle windows take
Wait ==
    /\ now < MaxTime + 2 * reply_throttle_time
    /\ now' = now + 1
    /\ last' = Op("tick", NoRef, None, FALSE, NoRef, "done")
    /\ UNCHANGED <<messages, instances, chat_instances, disk, tasks, lookups>>

\* a group and a private conversation are open
InitThrottle ==
    /\ messages = <<>>
    /\ instances = <<ChatInstance("group_1", TRUE, 0), ChatInstance("private_1", FALSE, 0)>>
    /\ chat_instances = [k \in Keys |-> CASE k = "group_1" -> 1
                                          [] k = "private_1" -> 2
                                          [] OTHER -> NoRef]
    /\ disk = [k \in Keys |-> NoFile]
    /\ now = 0
    /\ tasks = NoTasks
    /\ lookups = [k \in Keys |-> 0]
    /\ last = NoOp

NextThrottle ==
    \/ Wait
    \/ \E i \in DOMAIN instances : in_throttle_time(i)

SpecThrottle == InitThrottle /\ [][NextThrottle]_vars

\* C15: in_throttle_time returns true and leaves last_msg_time (and the rest
\* of the instance) unchanged when now - last_msg_time < reply_throttle_time;
\* otherwise it sets last_msg_time to now and returns false.  last_msg_time
\* is thus the time of the latest call that returned false, and a call that
\* returns false is at least reply_throttle_time after it.
C15_ThrottleGate ==
    [][last'.op = "in_throttle_time" =>
         LET i == last'.inst IN
         IF now - instances[i].last_msg_time < reply_throttle_time
         THEN /\ last'.result = "True"
              /\ UNCHANGED instances
         ELSE /\ last'.result = "False"
              /\ instances' = [instances EXCEPT ![i].last_msg_time = now]
              /\ instances'[i].last_msg_time - instances[i].last_msg_time
                    >= reply_throttle_time]_vars

\* a call was throttled after an earlier call of the same conversation had
\* returned false
C15_Witness ==
    /\ last.op = "in_throttle_time"
    /\ last.result = "True"
    /\ instances[last.inst].last_msg_time # 0
    /\ now > instances[last.inst].last_msg_time

---------------------------------------------------------------------------
(* Claims about unclassified events, merging and the pickle round trip *)

\* C16: when the event is neither a group nor a private message and its key
\* is not in the registry, get_chat_instance fails: it returns no instance,
\* constructs no ChatInstance and leaves the registry unchanged.
C16_UnknownKindFails ==
    [][\A t \in DOMAIN tasks :
          (/\ tasks[t].pc = "idle"
           /\ tasks'[t].pc # "idle"
           /\ tasks'[t].event.type \notin {"GroupMessageEvent", "PrivateMessageEvent"}
           /\ chat_instances[tasks'[t].event.chat_key] = NoRef)
          => /\ tasks'[t].pc = "failed"
             /\ tasks'[t].ret = NoRef
             /\ raised(last')
             /\ UNCHANGED <<instances, chat_instances, messages, lookups>>]_vars

\* a handler of an unclassified event was ended by matcher.finish while the
\* registry held another conversation
C16_Witness ==
    /\ last.op = "get_chat_instance"
    /\ last.result = "FinishedException"
    /\ last.key = "unknown_1"
    /\ chat_instances["unknown_1"] = NoRef
    /\ \E k \in Keys : chat_instances[k] # NoRef
    /\ \E t \in DOMAIN tasks : tasks[t].pc = "failed" /\ tasks[t].event.type = "MessageEvent"

---------------------------------------------------------------------------
(* A group and a private conversation that record, load from each other  *)
(* and build prompts                                                      *)

InitMerge ==
    /\ messages = <<>>
    /\ instances = <<ChatInstance("group_1", TRUE, 0), ChatInstance("private_1", FALSE, 0)>>
    /\ chat_instances = [k \in Keys |-> CASE k = "group_1" -> 1
                                          [] k = "private_1" -> 2
                                          [] OTHER -> NoRef]
    /\ disk = [k \in Keys |-> NoFile]
    /\ now = 0
    /\ tasks = NoTasks
    /\ lookups = [k \in Keys |-> 0]
    /\ last = NoOp

\* the texts recorded into a direct history with their token counts: a user
\* message counted by the tokenizer, or a completion recorded with its
\* completion_tokens, which may lie between the two direct budgets
ChatInputs ==
    {<<text, count_token(text)>> : text \in Texts}
        \cup {<<"b", record_chat_context_token_limit + 2>>}

\* two conversations share the heap: a new message needs room in it
Room(i, hk, text) ==
    Len(messages) < MaxMsgs - 1 \/ is_last_text(instances[i].history[hk], text)

NextMerge ==
    \/ Tick
    \/ \E i \in DOMAIN instances, text \in Texts :
          \* an ambient message of a group, counted by the tokenizer
          /\ instances[i].is_group
          /\ Room(i, "other_history", text)
          /\ add_other_history(i, text, TRUE, count_token(text))
    \/ \E i \in DOMAIN instances, input \in ChatInputs, auto_remove \in BOOLEAN :
          /\ Room(i, "chat_history", input[1])
          /\ add_chat_history(i, input[1], auto_remove, input[2])
    \/ \E i, j \in DOMAIN instances : load_history_from_instance(i, j)
    \/ \E i \in DOMAIN instances : ChatCompletionFlow(i)

SpecMerge == InitMerge /\ [][NextMerge]_vars

\* history h is the union of a and b as HistoryData.load leaves it: the totals
\* added, every message kept, last_text None so that no text is a repeat
IsUnion(h, a, b) ==
    /\ h.total_tokens = a.total_tokens + b.total_tokens
    /\ Len(h.deque) = Len(a.deque) + Len(b.deque)
    /\ h.last_text = None
    /\ \A text \in Texts : ~is_last_text(h, text)

\* C17: HistoryData.load with several sources yields a history whose
\* total_tokens is the sum of the sources' total_tokens, evicts nothing, and
\* sets last_text to None, so that the next recorded text is not a repeat;
\* for the union a private conversation loads from another instance and for
\* the merged_history of a flow.
C17_UnionLoad ==
    [][/\ (last'.op = "load_history_from_instance" /\ ~instances[last'.inst].is_group) =>
             LET src == instances[chat_instances[last'.key]].history IN
             IsUnion(instances'[last'.inst].history.chat_history,
                     src.other_history, src.chat_history)
       /\ last'.op = "ChatCompletionFlow" =>
             /\ IsUnion(last'.merged, instances[last'.inst].history.chat_history,
                        instances[last'.inst].history.other_history)
             /\ last'.merged.max_token_count = total_token_limit(instances[last'.inst])]_vars

\* a private conversation loaded both histories of the group, and kept all of
\* it although the sum is beyond its own budget
C17_Witness ==
    /\ last.op = "load_history_from_instance"
    /\ last.key = "group_1"
    /\ ~instances[last.inst].is_group
    /\ instances[chat_instances["group_1"]].history.other_history.deque # <<>>
    /\ instances[chat_instances["group_1"]].history.chat_history.deque # <<>>
    /\ LET h == instances[last.inst].history.chat_history IN
          /\ h.total_tokens > h.max_token_count
          /\ h.total_tokens = SumTokens(h.deque, messages)
          /\ h.last_text = None

\* C18: the sequence a completion's prompt is built from (merged_history.deque,
\* which get_messages_list keeps in order) holds every message of the direct
\* and of the ambient history exactly once and nothing else, in ascending
\* order of timestamp across both.
C18_PromptIsSortedUnion ==
    last.op = "ChatCompletionFlow" =>
        LET d == last.merged.deque
            c == instances[last.inst].history.chat_history.deque
            o == instances[last.inst].history.other_history.deque
        IN /\ Len(d) = Len(c) + Len(o)
           /\ Range(d) = Range(c) \cup Range(o)
           /\ \A r \in Range(c) \cup Range(o) :
                 Cardinality({n \in DOMAIN d : d[n] = r}) = 1
           /\ \A n \in 1..(Len(d) - 1) :
                 messages[d[n]].timestamp <= messages[d[n + 1]].timestamp

\* a prompt in which an ambient message precedes an earlier-listed direct one
\* because it is older
C18_Witness ==
    /\ last.op = "ChatCompletionFlow"
    /\ Len(last.merged.deque) >= 2
    /\ last.merged.deque[1] \in Range(instances[last.inst].history.other_history.deque)
    /\ last.merged.deque[2] \in Range(instances[last.inst].history.chat_history.deque)
    /\ messages[last.merged.deque[1]].timestamp < messages[last.merged.deque[2]].timestamp

\* C19: HistoryData.load with a single source makes the receiver's deque,
\* total_tokens and last_text those of the source and then evicts against the
\* receiver's own max_token_count; a record of the source's last_text into
\* the receiver right afterwards is coalesced as a repeat (the tail is
\* refreshed), not appended.  The second part is stated for a source that
\* still holds messages.
C19_AdoptKeepsRepeatSuppression ==
    [][/\ (last'.op = "load_history_from_instance" /\ instances[last'.inst].is_group) =>
             \A hk \in HistoryKeys :
                 LET src == instances[chat_instances[last'.key]].history[hk]
                     own == instances[last'.inst].history[hk]
                     new == instances'[last'.inst].history[hk]
                     adopted == check_limit([src EXCEPT !.max_token_count = own.max_token_count],
                                            messages)
                 IN /\ Values(new.deque, messages') = Values(adopted.deque, messages)
                    /\ new.total_tokens = adopted.total_tokens
                    /\ new.last_text = src.last_text
                    /\ new.max_token_count = own.max_token_count
       /\ (/\ last.op = "load_history_from_instance"
           /\ instances[last.inst].is_group
           /\ last'.op \in RecordOps
           /\ last'.inst = last.inst
           /\ instances[chat_instances[last.key]].history[last'.hist].deque # <<>>
           /\ instances'[last.inst].history[last'.hist].last_text
                 = instances[last.inst].history[last'.hist].last_text) =>
             /\ last'.result = "refreshed"
             /\ instances'[last.inst].history[last'.hist].deque
                   = instances[last.inst].history[last'.hist].deque]_vars

\* history h, written by get_data_dict and read into a new HistoryData by
\* load_pickel_data, has the same messages in the same order, the same
\* total_tokens and the same last_text
RoundTrips(h) ==
    LET data == get_data_dict(h, messages)
        loaded == load_pickel_data(HistoryData(h.max_token_count), data, Len(messages) + 1)
        heap == messages \o data.deque
    IN /\ Values(loaded.deque, heap) = Values(h.deque, messages)
       /\ loaded.total_tokens = h.total_tokens
       /\ loaded.last_text = h.last_text

\* C20: serialization round-trips for every reachable HistoryData.
C20_PickleRoundTrip ==
    \A i \in DOMAIN instances : \A hk \in HistoryKeys :
        RoundTrips(instances[i].history[hk])

\* a history with two different messages and a last_text round-trips
C20_Witness ==
    \E i \in DOMAIN instances : \E hk \in HistoryKeys :
        LET h == instances[i].history[hk] IN
        /\ Len(h.deque) >= 2
        /\ messages[h.deque[1]] # messages[h.deque[2]]
        /\ h.last_text # None
        /\ RoundTrips(h)

---------------------------------------------------------------------------
(* nonebot-plugin-ragflow (chat.py): a conversation has one ChatContext    *)
(* with one HistoryData; ChatInstance itself saves.  HistoryData there has *)
(* the add_message, check_limit, is_last_text and update_timestamp of the  *)
(* llm plugin, line for line, so those operators serve both.               *)

\* configuration value (ragflow config.py:152), scaled down
record_context_token_limit == 10

RagVERSION == 1

\* the attribute ChatInstance.changed before any assignment to it; save_pickle
\* makes it "False"
Unset == "unset"

\* ragflow ChatContext.__init__
ChatContext(inst) ==
    [data |-> HistoryData(record_context_token_limit), changed |-> FALSE]

\* ragflow ChatInstance.__init__: no attribute changed is set on the instance
RagChatInstance(chat_key, is_group, t) ==
    [chat_key |-> chat_key, is_group |-> is_group, last_msg_time |-> 0,
     context |-> ChatContext([is_group |-> is_group]),
     changed |-> Unset,
     next_auto_save_time |-> t + auto_save_interval * 60]

\* the heap after a step of the one ragflow conversation: the messages its
\* deque holds, renumbered in deque order
RagCompactMessages(msgs, insts) ==
    [n \in DOMAIN insts[1].context.data.deque |-> msgs[insts[1].context.data.deque[n]]]

RagCompactInstances(insts) ==
    [insts EXCEPT ![1].context.data.deque = [n \in DOMAIN @ |-> n]]

\* ragflow ChatContext.add_message (ChatInstance.record_context)
record_context(i, text, auto_remove, token_count) ==
    LET h == instances[i].context.data IN
    /\ IF is_last_text(h, text)
       THEN IF h.deque = <<>>
            THEN /\ instances' = [instances EXCEPT ![i].context.changed = TRUE]
                 /\ messages' = messages
                 /\ last' = Op("record_context", i, None, auto_remove, NoRef, "IndexError")
            ELSE /\ messages' = update_timestamp(h, messages, now)
                 /\ instances' = [instances EXCEPT ![i].context.changed = TRUE]
                 /\ last' = Op("record_context", i, None, auto_remove, NoRef, "refreshed")
       ELSE /\ Len(messages) < MaxMsgs
            /\ LET id == NewId(messages)
                   msgs1 == Append(messages, NewMessage(text, token_count, now))
                   h1 == add_message(h, msgs1, id, text, auto_remove)
                   insts1 == [instances EXCEPT ![i].context.changed = TRUE,
                                               ![i].context.data = h1]
               IN /\ instances' = RagCompactInstances(insts1)
                  /\ messages' = RagCompactMessages(msgs1, insts1)
                  /\ last' = [Op("record_context", i, None, auto_remove, NoRef, "appended")
                                EXCEPT !.tokens = token_count,
                                       !.popped = Len(h.deque) + 1 - Len(h1.deque)]
    /\ UNCHANGED <<chat_instances, disk, now, tasks, lookups>>

\* ragflow HistoryData.clear_context
clear_context(h) ==
    [h EXCEPT !.deque = <<>>, !.last_text = None, !.total_tokens = 0]

\* ragflow ChatInstance.clear_history: self.context.clear()
Rag_clear_history(i) ==
    /\ instances' = [instances EXCEPT ![i].context.data = clear_context(@)]
    /\ messages' = <<>>
    /\ last' = Op("clear_history", i, None, FALSE, NoRef, "done")
    /\ UNCHANGED <<chat_instances, disk, now, tasks, lookups>>

\* ragflow ChatInstance.create_pickle_data; name and session are not modelled
create_pickle_data(inst, msgs) ==
    [chat_key |-> inst.chat_key, is_group |-> inst.is_group,
     context |-> get_data_dict(inst.context.data, msgs),
     VERSION |-> RagVERSION]

\* ragflow ChatInstance.save_pickle(force): the test reads context.changed, and
\* after the with block the assignment is to the instance's own attribute
Rag_save_pickle(i, force, outcome) ==
    LET inst == instances[i] IN
    /\ IF ~(inst.context.changed \/ force)
       THEN /\ outcome = "ok"
            /\ UNCHANGED <<instances, disk>>
            /\ last' = Op("save_pickle", i, None, force, NoRef, "skipped")
       ELSE CASE outcome = "ok" ->
                   /\ disk' = [disk EXCEPT ![inst.chat_key] =
                                  PickleFile(create_pickle_data(inst, messages))]
                   /\ instances' = [instances EXCEPT ![i].changed = "False"]
                   /\ last' = Op("save_pickle", i, None, force, NoRef, "written")
              [] outcome = "open_raises" ->
                   /\ UNCHANGED <<instances, disk>>
                   /\ last' = Op("save_pickle", i, None, force, NoRef, "OSError")
              [] outcome = "dump_raises" ->
                   /\ disk' = [disk EXCEPT ![inst.chat_key] = CorruptFile]
                   /\ UNCHANGED instances
                   /\ last' = Op("save_pickle", i, None, force, NoRef, "PicklingError")
    /\ UNCHANGED <<messages, chat_instances, now, tasks, lookups>>

\* a ragflow group conversation is open; nothing is on disk
InitRag ==
    /\ messages = <<>>
    /\ instances = <<RagChatInstance("group_1", TRUE, 0)>>
    /\ chat_instances = [k \in Keys |-> IF k = "group_1" THEN 1 ELSE NoRef]
    /\ disk = [k \in Keys |-> NoFile]
    /\ now = 0
    /\ tasks = NoTasks
    /\ lookups = [k \in Keys |-> 0]
    /\ last = NoOp

NextRag ==
    \/ Tick
    \/ \E i \in DOMAIN instances, text \in Texts, token_count \in TokenCounts :
          \* auto_remove keeps its default, as in every caller
          record_context(i, text, TRUE, token_count)
    \/ \E i \in DOMAIN instances : Rag_clear_history(i)
    \/ \E i \in DOMAIN instances, force \in BOOLEAN, outcome \in SaveOutcomes :
          Rag_save_pickle(i, force, outcome)

SpecRag == InitRag /\ [][NextRag]_vars

\* C21: in the RAG plugin save_pickle does nothing unless context.changed or
\* force is true, and a save that completes leaves context.changed false, so
\* that a second save_pickle() with no mutation in between writes nothing.
C21_RagSaveClearsDirty ==
    [][last'.op = "save_pickle" =>
         LET i == last'.inst
             pre == instances[i].context
             post == instances'[i].context
         IN IF ~(pre.changed \/ last'.flag)
            THEN /\ last'.result = "skipped"
                 /\ UNCHANGED <<messages, instances, chat_instances, disk>>
            ELSE /\ last'.result # "skipped"
                 /\ last'.result = "written" => ~post.changed]_vars

---------------------------------------------------------------------------
(* Claims about errors of recording, last_text, and the registry mapping *)

\* C22: for every sequence of record operations on an instance
\* (add_chat_history and add_other_history, with any texts and token counts,
\* a message larger than the budget followed by the same text included) no
\* record call raises an error.
C22_RecordNeverRaises ==
    last.op \in RecordOps => ~raised(last)

\* C23: in every reachable state of a HistoryData, last_text is None or the
\* raw text of the message at the tail of the deque; a last_text that is not
\* None implies a deque that is not empty.
C23_LastTextIsTailText ==
    \A i \in DOMAIN instances : \A hk \in HistoryKeys :
        LET h == instances[i].history[hk] IN
        h.last_text # None =>
            /\ h.deque # <<>>
            /\ messages[h.deque[Len(h.deque)]].text = h.last_text

\* C24: once chat_instances maps a key to a ChatInstance object it maps the
\* key to that object in every later state, whatever the interleaving of
\* get_chat_instance calls, so that an instance a call has returned is the
\* registered one.
C24_RegistryStable ==
    [][\A k \in Keys :
          chat_instances[k] # NoRef => chat_instances'[k] = chat_instances[k]]_vars

\* C25: whenever changed is false the histories in memory are what the file
\* of the conversation holds, or there is no file and the histories are as
\* constructed; a flush at shutdown and a reload then reproduce them.  Stated
\* for the runs in which no write has left a truncated file behind.
C25_CleanMeansSaved ==
    (\A k \in Keys : disk[k] # CorruptFile) =>
        \A i \in DOMAIN instances :
            ~instances[i].history.changed =>
                IF disk[instances[i].chat_key] = NoFile
                THEN FreshHistories(i)
                ELSE DiskReflects(instances[i].chat_key, i)

---------------------------------------------------------------------------
(* Claims about conversations that have loaded history from each other *)

\* history h is within its budget, or holds at most one message
WithinBudget(h) ==
    h.total_tokens <= h.max_token_count \/ Len(h.deque) <= 1

\* C26: after load_history_from_instance completes, every history of the
\* receiving instance respects the receiver's own budget (total_tokens <=
\* max_token_count, or at most one message), for a group receiver, which
\* adopts each history, and for a private receiver, which takes the union of
\* the source's two histories as its direct history.
C26_LoadRespectsBudget ==
    last.op = "load_history_from_instance" =>
        \A hk \in HistoryKeys : WithinBudget(instances[last.inst].history[hk])

\* what instance j holds, by value: the messages of both deques with their
\* timestamps, the totals and the last texts
Held(insts, msgs, j) ==
    [hk \in HistoryKeys |->
        [deque |-> Values(insts[j].history[hk].deque, msgs),
         total_tokens |-> insts[j].history[hk].total_tokens,
         last_text |-> insts[j].history[hk].last_text]]

\* C27: after instance A has loaded history from instance B the two are
\* independent: a later record on A, with the eviction it may run, leaves
\* B's deques, the timestamps of B's messages, B's total_tokens and B's
\* last_text unchanged, and the same with A and B exchanged.  Conversations
\* start with nothing in common, so this is stated for every record.
C27_LoadedCopiesIndependent ==
    [][last'.op \in RecordOps =>
          \A j \in DOMAIN instances \ {last'.inst} :
              Held(instances', messages', j) = Held(instances, messages, j)]_vars

\* C28: with a clock that never runs backwards, every deque is in
\* non-decreasing order of timestamp from head to tail in every reachable
\* state, after any records, refreshes of a repeated text, evictions and
\* load_history_from_instance calls across instances.
C28_DequesSortedByTime ==
    \A i \in DOMAIN instances : \A hk \in HistoryKeys :
        LET d == instances[i].history[hk].deque IN
        \A n \in 1..(Len(d) - 1) :
            messages[d[n]].timestamp <= messages[d[n + 1]].timestamp

---------------------------------------------------------------------------
(* Claims about migrated records and the autosave task *)

\* C29: a version-0 record loaded through the migration chain
\* (history_data_0_to_1, then history_data_1_to_2) gives histories that
\* satisfy the core invariant: total_tokens of each history is the sum of
\* token_count over the messages in its deque.
C29_MigratedTotalsExact ==
    (/\ last.op = "ChatInstance"
     /\ last.inst # NoRef
     /\ disk[last.key].kind = "pickle"
     /\ VersionOf(disk[last.key].data) = 0
     /\ last.failed_at = -1) =>
        \A hk \in HistoryKeys :
            LET h == instances[last.inst].history[hk]
            IN h.total_tokens = SumTokens(h.deque, messages)

\* check_auto_save(current_timestamp) as timed_storage sees it:
\* [history, disk, result]; a raise of save_pickle leaves next_auto_save_time
CheckAutoSave(inst, dsk, msgs, auto_save_history, current_timestamp, outcome) ==
    IF ~auto_save_due(inst.history, auto_save_history, current_timestamp)
    THEN [history |-> inst.history, disk |-> dsk, result |-> "skipped"]
    ELSE LET r == SavePickle(inst, dsk, msgs, FALSE, outcome) IN
         IF r.result \in Errors THEN r
         ELSE [r EXCEPT !.history.next_auto_save_time =
                            current_timestamp + auto_save_interval * 60]

\* the for loop of timed_storage over refs: check_auto_save of each instance in
\* turn; an exception leaves the loop: [instances, disk, result, inst]
RECURSIVE CheckAll(_, _, _, _, _)
CheckAll(insts, dsk, refs, settings, outcomes) ==
    IF refs = <<>> THEN [instances |-> insts, disk |-> dsk, result |-> "done", inst |-> NoRef]
    ELSE LET i == Head(refs)
             r == CheckAutoSave(insts[i], dsk, messages, settings[i], now, outcomes[i])
         IN IF r.result \in Errors
            THEN [instances |-> insts, disk |-> r.disk, result |-> r.result, inst |-> i]
            ELSE CheckAll([insts EXCEPT ![i].history = r.history], r.disk,
                          Tail(refs), settings, outcomes)

\* one round of the while True loop of timed_storage, the coroutine on_startup
\* schedules (tasks[1]): after asyncio.sleep(5), current_timestamp = time() and
\* the for loop.  Nothing catches an exception of check_auto_save: it ends the
\* coroutine.  settings gives each conversation's auto_save_history.
timed_storage(settings, outcomes) ==
    LET r == CheckAll(instances, disk, get_chat_instances, settings, outcomes) IN
    /\ tasks[1].pc = "sleeping"
    /\ \A i \in DOMAIN instances :
          ~auto_save_due(instances[i].history, settings[i], now) => outcomes[i] = "ok"
    /\ instances' = r.instances
    /\ disk' = r.disk
    /\ tasks' = [tasks EXCEPT ![1].pc = IF r.result \in Errors THEN "failed" ELSE "sleeping"]
    /\ last' = Op("timed_storage", r.inst, None, FALSE, NoRef, r.result)
    /\ UNCHANGED <<messages, chat_instances, now, lookups>>

\* a group and a private conversation are open and timed_storage is asleep
InitAutosave ==
    /\ messages = <<>>
    /\ instances = <<ChatInstance("group_1", TRUE, 0), ChatInstance("private_1", FALSE, 0)>>
    /\ chat_instances = [k \in Keys |-> CASE k = "group_1" -> 1
                                          [] k = "private_1" -> 2
                                          [] OTHER -> NoRef]
    /\ disk = [k \in Keys |-> NoFile]
    /\ now = 0
    /\ tasks = [NoTasks EXCEPT ![1].pc = "sleeping"]
    /\ lookups = [k \in Keys |-> 0]
    /\ last = NoOp

NextAutosave ==
    \/ Tick
    \/ Sleep
    \/ \E i \in DOMAIN instances, text \in Texts :
          /\ Room(i, "chat_history", text)
          /\ add_chat_history(i, text, TRUE, count_token(text))
    \/ \E settings \in [DOMAIN instances -> BOOLEAN],
          outcomes \in [DOMAIN instances -> SaveOutcomes] :
          timed_storage(settings, outcomes)

SpecAutosave == InitAutosave /\ [][NextAutosave]_vars

\* C30: a failure while saving one instance during an autosave tick does not
\* stop autosaving: after a round of timed_storage in which a save raised the
\* periodic task is still running, so that the other dirty instances with
\* autosave enabled whose time has come are saved by it.  Stated for the
\* rounds that leave such an instance behind.
C30_AutosaveSurvivesFailure ==
    (/\ last.op = "timed_storage"
     /\ raised(last)
     /\ \E j \in DOMAIN instances \ {last.inst} :
           /\ instances[j].history.changed
           /\ now > instances[j].history.next_auto_save_time)
    => tasks[1].pc = "sleeping"

====
